---------------------------- MODULE Spec2Model ----------------------------
(* Elliptic-curve arithmetic of gost3410/curve.go: NewCurve, pos, add,     *)
(* Exp and Equal, over arbitrary-precision integers (math/big).            *)
EXTENDS Integers, Sequences, FiniteSets, TLC

VARIABLES
    cv,     \* the *Curve the arithmetic calls run on
    ad,     \* operands of two add calls: add(p1, p2) and add(q1, q2)
    ex,     \* the frame of one Exp call
    our,    \* result of the last NewCurve call bound to "our"
    their,  \* result of the last NewCurve call bound to "their"
    eq      \* outcome of our.Equal(their)

vars == <<cv, ad, ex, our, their, eq>>

-----------------------------------------------------------------------------
(* Bounds of the model.                                                    *)

\* coordinates and coefficients are drawn from -Slack .. P-1+Slack
Slack == 1
\* Exp is called with degree in MinDegree .. MaxDegree
MaxDegree == 12
\* the history counters of the Exp frame saturate here
MaxCount == 8

MinDegree == 0 - 2

-----------------------------------------------------------------------------
(* math/big as the code uses it.                                           *)

\* a nil pointer; a non-nil *big.Int v that may be nil is <<v>>
Nil == <<>>
Ptr(v) == <<v>>

Abs(x) == IF x < 0 THEN 0 - x ELSE x

\* big.Int.Mod: Euclidean modulus, result in [0, |y|)
Mod(x, y) == x % Abs(y)

\* big.Int.Bit(0) of a two's-complement integer
Bit0(x) == x % 2

\* big.Int.Rsh: arithmetic shift, rounds toward minus infinity
RshStuck(x, n) == x
Rsh(x, n) == x \div (2 ^ n)

\* big.Int.GCD(x, y, a, b) for a, b >= 0: <<d, x, y>> with a*x + b*y = d
RECURSIVE egcd(_, _)
egcd(a, b) ==
    IF b = 0 THEN <<a, 1, 0>>
    ELSE LET r == egcd(b, a % b)
         IN <<r[1], r[3], r[2] - (a \div b) * r[3]>>

\* a ModInverse that forgets the coprimality test and always stores x
ModInverseUnchecked(z, g, n) ==
    LET n1 == IF n < 0 THEN 0 - n ELSE n
        g1 == IF g < 0 THEN Mod(g, n1) ELSE g
        r  == egcd(g1, n1)
    IN [ok |-> TRUE, z |-> IF r[2] < 0 THEN r[2] + n1 ELSE r[2]]

\* z.ModInverse(g, n): ok is "the return value is not nil"; when g and n
\* are not coprime the receiver z is left unchanged
ModInverse(z, g, n) ==
    LET n1 == IF n < 0 THEN 0 - n ELSE n
        g1 == IF g < 0 THEN Mod(g, n1) ELSE g
        r  == egcd(g1, n1)
    IN IF r[1] # 1
       THEN [ok |-> FALSE, z |-> z]
       ELSE [ok |-> TRUE, z |-> IF r[2] < 0 THEN r[2] + n1 ELSE r[2]]

\* x.Cmp(y) on pointers: -1, 0, 1, or "panic" on a nil dereference
Cmp(x, y) ==
    IF x = Nil /\ y = Nil THEN Ptr(0)
    ELSE IF x = Nil \/ y = Nil THEN Nil
    ELSE IF x[1] < y[1] THEN Ptr(0 - 1)
    ELSE IF x[1] > y[1] THEN Ptr(1)
    ELSE Ptr(0)

-----------------------------------------------------------------------------
(* Curve                                                                   *)

ErrNone == "nil"
ErrInvalidCurve == "gogost/gost3410: invalid curve parameters"
ErrZeroDegree == "gogost/gost3410: zero degree value"

\* c.pos(v)
pos(c, v) == IF v < 0 THEN v + c.P ELSE v

\* the struct literal of NewCurve; E, D and Co are pointers
CurveLit(p, q, a, b, x, y) ==
    [Name |-> "unknown", P |-> p, Q |-> q, A |-> a, B |-> b,
     X |-> x, Y |-> y, E |-> Nil, D |-> Nil, Co |-> Nil]

\* a NewCurve that checks y^2 = x^3 + b, dropping the A term
NewCurveNoA(p, q, a, b, x, y, e, d, co) ==
    LET c  == CurveLit(p, q, a, b, x, y)
        r1 == Mod(c.Y * c.Y, c.P)
        r2 == pos(c, Mod((c.X * c.X) * c.X + c.B, c.P))
    IN IF r1 # r2
       THEN [c |-> Nil, err |-> ErrInvalidCurve]
       ELSE [c |-> Ptr([c EXCEPT !.Co = IF co = Nil THEN Ptr(1) ELSE co]),
             err |-> ErrNone]

\* NewCurve(p, q, a, b, x, y, e, d, co): e, d, co may be Nil
NewCurve(p, q, a, b, x, y, e, d, co) ==
    LET c  == CurveLit(p, q, a, b, x, y)
        r1 == Mod(c.Y * c.Y, c.P)
        r2 == pos(c, Mod((c.X * c.X + c.A) * c.X + c.B, c.P))
        c1 == IF e # Nil /\ d # Nil THEN [c EXCEPT !.E = e, !.D = d] ELSE c
        c2 == [c1 EXCEPT !.Co = IF co = Nil THEN Ptr(1) ELSE co]
    IN IF r1 # r2
       THEN [c |-> Nil, err |-> ErrInvalidCurve]
       ELSE [c |-> Ptr(c2), err |-> ErrNone]

\* the first half of add with the doubling slope's 3 written as 2
slopeWrong(c, p1x, p1y, p2x, p2y) ==
    IF p1x = p2x /\ p1y = p2y
    THEN LET t0   == (p1x * p1x) * 2 + c.A
             recv == 2 * p1y
             inv  == ModInverse(recv, recv, c.P)
         IN [double |-> TRUE, den |-> recv, recv |-> recv, inv |-> inv,
             t |-> Mod(t0 * inv.z, c.P)]
    ELSE LET tx0 == pos(c, Mod(p2x - p1x, c.P))
             ty0 == pos(c, Mod(p2y - p1y, c.P))
             inv == ModInverse(0, tx0, c.P)
         IN [double |-> FALSE, den |-> tx0, recv |-> 0, inv |-> inv,
             t |-> Mod(inv.z * ty0, c.P)]

\* the first half of add: the slope t, with the ModInverse call it made
\* (den: its argument, recv: its receiver's value before the call)
slope(c, p1x, p1y, p2x, p2y) ==
    IF p1x = p2x /\ p1y = p2y
    THEN LET t0   == (p1x * p1x) * 3 + c.A
             recv == 2 * p1y
             inv  == ModInverse(recv, recv, c.P)
         IN [double |-> TRUE, den |-> recv, recv |-> recv, inv |-> inv,
             t |-> Mod(t0 * inv.z, c.P)]
    ELSE LET tx0 == pos(c, Mod(p2x - p1x, c.P))
             ty0 == pos(c, Mod(p2y - p1y, c.P))
             inv == ModInverse(0, tx0, c.P)
         IN [double |-> FALSE, den |-> tx0, recv |-> 0, inv |-> inv,
             t |-> Mod(inv.z * ty0, c.P)]

\* an add that forgets to reduce the new x coordinate
addNoMod(c, p1x, p1y, p2x, p2y) ==
    LET t  == slope(c, p1x, p1y, p2x, p2y).t
        tx == pos(c, t * t - p1x - p2x)
        ty == pos(c, Mod((p1x - tx) * t - p1y, c.P))
    IN <<tx, ty>>

\* c.add(p1x, p1y, p2x, p2y): the value left in (p1x, p1y)
add(c, p1x, p1y, p2x, p2y) ==
    LET t  == slope(c, p1x, p1y, p2x, p2y).t
        tx == pos(c, Mod(t * t - p1x - p2x, c.P))
        ty == pos(c, Mod((p1x - tx) * t - p1y, c.P))
    IN <<tx, ty>>


\* Exp's lines 140-147 without the zero-degree test
ExpInitNoCheck(degree, xS, yS) ==
    [ret |-> FALSE, dg |-> degree - 1, tx |-> xS, ty |-> yS, cx |-> xS, cy |-> yS]

\* Exp up to its loop: ret says that it returned nil, nil, error at line 141;
\* otherwise the locals dg, (tx, ty), (cx, cy) as lines 143-147 set them
ExpInit(degree, xS, yS) ==
    IF degree = 0
    THEN [ret |-> TRUE, dg |-> 0, tx |-> 0, ty |-> 0, cx |-> 0, cy |-> 0]
    ELSE [ret |-> FALSE, dg |-> degree - 1, tx |-> xS, ty |-> yS, cx |-> xS, cy |-> yS]

\* one pass through the body of Exp's loop, lines 149-153
ExpBody(c, s) ==
    LET T == IF Bit0(s.dg) = 1 THEN add(c, s.tx, s.ty, s.cx, s.cy) ELSE <<s.tx, s.ty>>
        C == add(c, s.cx, s.cy, s.cx, s.cy)
    IN [ret |-> FALSE, dg |-> Rsh(s.dg, 1), tx |-> T[1], ty |-> T[2], cx |-> C[1], cy |-> C[2]]

\* Exp's loop, lines 148-154, run to its end
RECURSIVE ExpLoop(_, _)
ExpLoop(c, s) == IF s.dg = 0 THEN s ELSE ExpLoop(c, ExpBody(c, s))

\* c.Exp(degree, xS, yS) as a function, for degree >= 0
Exp(c, degree, xS, yS) ==
    LET s0 == ExpInit(degree, xS, yS)
    IN IF s0.ret
       THEN [x |-> Nil, y |-> Nil, err |-> ErrZeroDegree]
       ELSE LET s == ExpLoop(c, s0)
            IN [x |-> Ptr(s.tx), y |-> Ptr(s.ty), err |-> ErrNone]

\* one operand of Equal's && chain: "true", "false" or "panic"
CmpEq(x, y) ==
    LET r == Cmp(x, y)
    IN IF r = Nil THEN "panic" ELSE IF r[1] = 0 THEN "true" ELSE "false"

\* (our.E == nil && their.E == nil) || our.E.Cmp(their.E) == 0
NilOrEq(x, y) == IF x = Nil /\ y = Nil THEN "true" ELSE CmpEq(x, y)

\* left-to-right && over operands that may panic
RECURSIVE AndAlso(_)
AndAlso(s) ==
    IF s = <<>> THEN "true"
    ELSE IF Head(s) # "true" THEN Head(s)
    ELSE AndAlso(Tail(s))

\* our.Equal(their): "true", "false", or "panic" (nil pointer dereference)
Equal(o, t) ==
    AndAlso(<<CmpEq(Ptr(o.P), Ptr(t.P)), CmpEq(Ptr(o.Q), Ptr(t.Q)),
              CmpEq(Ptr(o.A), Ptr(t.A)), CmpEq(Ptr(o.B), Ptr(t.B)),
              CmpEq(Ptr(o.X), Ptr(t.X)), CmpEq(Ptr(o.Y), Ptr(t.Y)),
              NilOrEq(o.E, t.E), NilOrEq(o.D, t.D), CmpEq(o.Co, t.Co)>>)

-----------------------------------------------------------------------------
(* The inputs the calls are made with.                                     *)

\* <<p, q, a, b, x, y>> of the curves add is exercised on
AddCurves == {<<5, 3, 1, 1, 2, 1>>, <<7, 3, 1, 3, 6, 1>>, <<11, 3, 0 - 1, 0, 4, 4>>}

\* <<p, q, a, b, x, y>> of the curves Exp is exercised on
ExpCurves == {<<5, 3, 1, 1, 2, 1>>, <<7, 3, 1, 3, 6, 1>>, <<23, 7, 1, 1, 5, 4>>}

MkCurve(k) == NewCurve(k[1], k[2], k[3], k[4], k[5], k[6], Nil, Nil, Nil).c[1]

Coords(c) == (0 - Slack) .. (c.P - 1 + Slack)

\* arguments of NewCurve: <<p, q, a, b, x, y, e, d, co>>
EDs == {<<Nil, Nil>>, <<Ptr(1), Ptr(2)>>, <<Ptr(1), Nil>>, <<Ptr(3), Ptr(2)>>}
Cos == {Nil, Ptr(1), Ptr(2)}
OurArgs ==
    {<<p, q, a, b, x, y, ed[1], ed[2], co>> :
        p \in {5, 7}, q \in {3, 6}, a \in {0 - 4, 1}, b \in {1, 8},
        x \in {0 - 1, 0, 2, 7}, y \in {0 - 1, 1, 2, 6}, ed \in EDs, co \in Cos}
TheirArgs ==
    {<<5, 3, 1, 1, 0, 1, ed[1], ed[2], co>> : ed \in EDs, co \in Cos}

Call(args) ==
    NewCurve(args[1], args[2], args[3], args[4], args[5], args[6],
             args[7], args[8], args[9])

NoCurve == [called |-> FALSE, args |-> <<>>, c |-> Nil, err |-> ErrNone]
NoAdd == [p1 |-> <<0, 0>>, p2 |-> <<0, 0>>, q1 |-> <<0, 0>>, q2 |-> <<0, 0>>,
          in1 |-> <<0, 0>>, in2 |-> <<0, 0>>, fwd |-> FALSE, swp |-> FALSE]
NoExp == [pc |-> "idle", degree |-> 0, xS |-> 0, yS |-> 0,
          dg |-> 0, tx |-> 0, ty |-> 0, cx |-> 0, cy |-> 0,
          rx |-> Nil, ry |-> Nil, err |-> ErrNone,
          iter |-> 0, nadd |-> 0, tOk |-> TRUE, cOk |-> TRUE]

Sat(n) == IF n < MaxCount THEN n + 1 ELSE MaxCount

-----------------------------------------------------------------------------
(* NewCurve twice, then our.Equal(their).                                  *)

InitCurve ==
    /\ cv = Nil
    /\ ad = NoAdd
    /\ ex = NoExp
    /\ \E a \in OurArgs : our = [NoCurve EXCEPT !.args = a]
    /\ \E a \in TheirArgs : their = [NoCurve EXCEPT !.args = a]
    /\ eq = "none"

NewOur ==
    /\ ~our.called
    /\ our' = [called |-> TRUE, args |-> our.args,
               c |-> Call(our.args).c, err |-> Call(our.args).err]
    /\ UNCHANGED <<cv, ad, ex, their, eq>>

NewTheir ==
    /\ ~their.called
    /\ their' = [called |-> TRUE, args |-> their.args,
                 c |-> Call(their.args).c, err |-> Call(their.args).err]
    /\ UNCHANGED <<cv, ad, ex, our, eq>>

EqualCall ==
    /\ our.called /\ their.called
    /\ our.c # Nil /\ their.c # Nil
    /\ eq = "none"
    /\ eq' = Equal(our.c[1], their.c[1])
    /\ UNCHANGED <<cv, ad, ex, our, their>>

NextCurve == NewOur \/ NewTheir \/ EqualCall

SpecCurve == InitCurve /\ [][NextCurve]_vars

-----------------------------------------------------------------------------
(* add(p1, p2) and add(q1, q2) with q1 = p2, q2 = p1, each on its own      *)
(* copies of the coordinates.                                              *)

InitAdd ==
    /\ \E k \in AddCurves : cv = MkCurve(k)
    /\ \E x1 \in Coords(cv), y1 \in Coords(cv), x2 \in Coords(cv), y2 \in Coords(cv) :
          ad = [p1 |-> <<x1, y1>>, p2 |-> <<x2, y2>>,
                q1 |-> <<x2, y2>>, q2 |-> <<x1, y1>>,
                in1 |-> <<x1, y1>>, in2 |-> <<x2, y2>>,
                fwd |-> FALSE, swp |-> FALSE]
    /\ ex = NoExp
    /\ our = NoCurve
    /\ their = NoCurve
    /\ eq = "none"

AddCall ==
    /\ ~ad.fwd
    /\ ad' = [ad EXCEPT !.p1 = add(cv, ad.p1[1], ad.p1[2], ad.p2[1], ad.p2[2]),
                        !.fwd = TRUE]
    /\ UNCHANGED <<cv, ex, our, their, eq>>

AddSwapped ==
    /\ ~ad.swp
    /\ ad' = [ad EXCEPT !.q1 = add(cv, ad.q1[1], ad.q1[2], ad.q2[1], ad.q2[2]),
                        !.swp = TRUE]
    /\ UNCHANGED <<cv, ex, our, their, eq>>

NextAdd == AddCall \/ AddSwapped

SpecAdd == InitAdd /\ [][NextAdd]_vars

-----------------------------------------------------------------------------
(* One call of Exp, a loop iteration at a time.                            *)

InitExp ==
    /\ \E k \in ExpCurves : cv = MkCurve(k)
    /\ ad = NoAdd
    /\ ex = NoExp
    /\ our = NoCurve
    /\ their = NoCurve
    /\ eq = "none"

\* the caller's c.Exp(degree, xS, yS)
ExpCall ==
    /\ ex.pc = "idle"
    /\ \E d \in MinDegree .. MaxDegree, x \in Coords(cv), y \in Coords(cv) :
          ex' = [NoExp EXCEPT !.pc = "call", !.degree = d, !.xS = x, !.yS = y]
    /\ UNCHANGED <<cv, ad, our, their, eq>>

\* lines 140-147
ExpEnter ==
    /\ ex.pc = "call"
    /\ LET s == ExpInit(ex.degree, ex.xS, ex.yS)
       IN ex' = IF s.ret
                THEN [ex EXCEPT !.pc = "done", !.err = ErrZeroDegree]
                ELSE [ex EXCEPT !.pc = "loop", !.dg = s.dg, !.tx = s.tx, !.ty = s.ty,
                                !.cx = s.cx, !.cy = s.cy]
    /\ UNCHANGED <<cv, ad, our, their, eq>>

\* lines 148-154, one iteration
ExpIter ==
    /\ ex.pc = "loop"
    /\ ex.dg # 0
    /\ LET s   == ExpBody(cv, ex)
           bit == Bit0(ex.dg) = 1
           tInv == slope(cv, ex.tx, ex.ty, ex.cx, ex.cy).inv.ok
           cInv == slope(cv, ex.cx, ex.cy, ex.cx, ex.cy).inv.ok
       IN ex' = [ex EXCEPT !.dg = s.dg, !.tx = s.tx, !.ty = s.ty,
                           !.cx = s.cx, !.cy = s.cy,
                           !.iter = Sat(ex.iter),
                           !.nadd = IF bit THEN Sat(Sat(ex.nadd)) ELSE Sat(ex.nadd),
                           !.tOk = IF bit THEN ex.tOk /\ ex.cOk /\ tInv ELSE ex.tOk,
                           !.cOk = ex.cOk /\ cInv]
    /\ UNCHANGED <<cv, ad, our, their, eq>>

\* line 155
ExpReturn ==
    /\ ex.pc = "loop"
    /\ ex.dg = 0
    /\ ex' = [ex EXCEPT !.pc = "done", !.rx = Ptr(ex.tx), !.ry = Ptr(ex.ty)]
    /\ UNCHANGED <<cv, ad, our, their, eq>>

\* a step of the running call
ExpStep == ExpEnter \/ ExpIter \/ ExpReturn

NextExp == ExpCall \/ ExpStep

SpecExp == InitExp /\ [][NextExp]_vars

-----------------------------------------------------------------------------
(* The group law of y^2 = x^3 + A*x + B over GF(P), with the point at      *)
(* infinity, as the reference the properties are stated against.           *)

Inf == <<>>

RECURSIVE PowMod(_, _, _)
PowMod(a, e, p) ==
    IF e = 0 THEN 1
    ELSE LET h == PowMod(a, e \div 2, p)
         IN IF e % 2 = 0 THEN (h * h) % p ELSE (((h * h) % p) * a) % p

\* the inverse in GF(p) by Fermat's little theorem, p prime
FInv(a, p) == PowMod(a % p, p - 2, p)

OnCurve(c, x, y) == (y * y) % c.P = (x * x * x + c.A * x + c.B) % c.P

InField(c, pt) == pt[1] \in 0 .. (c.P - 1) /\ pt[2] \in 0 .. (c.P - 1)

IsPoint(c, pt) == InField(c, pt) /\ OnCurve(c, pt[1], pt[2])

Norm(c, pt) == <<pt[1] % c.P, pt[2] % c.P>>

GAdd(c, U, V) ==
    IF U = Inf THEN V
    ELSE IF V = Inf THEN U
    ELSE IF U[1] = V[1] /\ (U[2] + V[2]) % c.P = 0 THEN Inf
    ELSE LET lam == IF U = V
                    THEN ((3 * U[1] * U[1] + c.A) * FInv(2 * U[2], c.P)) % c.P
                    ELSE ((V[2] - U[2]) * FInv(V[1] - U[1], c.P)) % c.P
             x3  == (lam * lam - U[1] - V[1]) % c.P
             y3  == (lam * (U[1] - x3) - U[2]) % c.P
         IN <<x3, y3>>

\* <<S, 2S, ..., nS>>
RECURSIVE GMults(_, _, _)
GMults(c, S, n) ==
    IF n = 1 THEN <<S>>
    ELSE LET prev == GMults(c, S, n - 1)
         IN Append(prev, GAdd(c, prev[n - 1], S))

GMul(c, n, S) == GMults(c, S, n)[n]

\* n < ord(S)
BelowOrder(c, n, S) == LET m == GMults(c, S, n) IN \A k \in 1 .. n : m[k] # Inf

\* S added to itself n-1 times with add: S, add(S,S), add(add(S,S),S), ...
RECURSIVE AddChain(_, _, _)
AddChain(c, S, n) ==
    IF n = 1 THEN S
    ELSE LET prev == AddChain(c, S, n - 1)
         IN add(c, prev[1], prev[2], S[1], S[2])

\* number of bits of n >= 0
RECURSIVE BitLen(_)
BitLen(n) == IF n = 0 THEN 0 ELSE 1 + BitLen(n \div 2)

ExS == <<ex.xS, ex.yS>>

-----------------------------------------------------------------------------
(* Properties.                                                             *)

\* C1: for every degree >= 1 and every point S of the curve, Exp returns
\* without error the coordinates of degree*S under the group law.
C1_ExpIsScalarMultiple ==
    (ex.pc = "done" /\ ex.degree >= 1 /\ IsPoint(cv, ExS)) =>
        LET m == GMul(cv, ex.degree, ExS)
        IN /\ ex.err = ErrNone
           /\ m # Inf
           /\ ex.rx = Ptr(m[1])
           /\ ex.ry = Ptr(m[2])

\* C2: a call with degree 0 returns at once the zero-degree error with both
\* results nil and no add made; a call with degree # 0 never has that error.
C2_ZeroDegreeRejected ==
    /\ (ex.degree = 0 /\ ex.pc \in {"loop", "done"}) =>
          /\ ex.pc = "done"
          /\ ex.err = ErrZeroDegree
          /\ ex.rx = Nil /\ ex.ry = Nil
          /\ ex.nadd = 0 /\ ex.iter = 0
    /\ ex.degree # 0 => ex.err # ErrZeroDegree

C2_Witness ==
    /\ ex.pc = "done" /\ ex.degree = 0 /\ ex.err = ErrZeroDegree
    /\ ~OnCurve(cv, ex.xS, ex.yS)

\* C3: NewCurve fails with the invalid-curve-parameters error and a nil
\* descriptor exactly when y^2 mod p # (x^3 + a*x + b) mod p, and otherwise
\* returns a descriptor holding p, q, a, b, x, y.
C3_NewCurveValidates ==
    our.called =>
        LET p == our.args[1]
            q == our.args[2]
            a == our.args[3]
            b == our.args[4]
            x == our.args[5]
            y == our.args[6]
            bad == (y * y) % p # (x * x * x + a * x + b) % p
        IN /\ bad <=> our.err = ErrInvalidCurve
           /\ bad => our.c = Nil
           /\ ~bad => /\ our.err = ErrNone
                      /\ our.c # Nil
                      /\ our.c[1].P = p /\ our.c[1].Q = q
                      /\ our.c[1].A = a /\ our.c[1].B = b
                      /\ our.c[1].X = x /\ our.c[1].Y = y

C3_Witness ==
    /\ our.called /\ our.err = ErrNone
    /\ our.args[3] < 0 /\ our.args[5] >= our.args[1] /\ our.args[6] < 0

\* C4: the sum add leaves in its first operand, for two points of the
\* curve with coordinates in [0, P), is a point of the curve.
C4_Closure ==
    (ad.fwd /\ IsPoint(cv, ad.in1) /\ IsPoint(cv, ad.in2)) =>
        OnCurve(cv, ad.p1[1], ad.p1[2])

\* C5: for two distinct points of the curve, add(P1, P2) and add(P2, P1)
\* leave the same coordinates in their first operand.
C5_Commutative ==
    (ad.fwd /\ ad.swp /\ IsPoint(cv, ad.in1) /\ IsPoint(cv, ad.in2) /\ ad.in1 # ad.in2) =>
        ad.p1 = ad.q1

\* C6: for positive a, b and a point S of the curve, Exp(a+b, S) is
\* add(Exp(a, S), Exp(b, S)).
C6_ScalarDistributivity ==
    (ex.pc = "done" /\ ex.degree >= 2 /\ IsPoint(cv, ExS)) =>
        \A a \in 1 .. (ex.degree - 1) :
            LET ra == Exp(cv, a, ex.xS, ex.yS)
                rb == Exp(cv, ex.degree - a, ex.xS, ex.yS)
                r  == add(cv, ra.x[1], ra.y[1], rb.x[1], rb.y[1])
            IN ex.rx = Ptr(r[1]) /\ ex.ry = Ptr(r[2])

\* C7: Equal returns a boolean, true exactly when P, Q, A, B, X, Y, Co are
\* numerically equal and E, D are absent in both or equal in both.
C7_EqualIsFieldwise ==
    eq # "none" =>
        LET o == our.c[1]
            t == their.c[1]
            opt(u, v) == (u = Nil /\ v = Nil) \/ (u # Nil /\ v # Nil /\ u[1] = v[1])
            same == /\ o.P = t.P /\ o.Q = t.Q /\ o.A = t.A /\ o.B = t.B
                    /\ o.X = t.X /\ o.Y = t.Y /\ o.Co[1] = t.Co[1]
                    /\ opt(o.E, t.E) /\ opt(o.D, t.D)
        IN eq = IF same THEN "true" ELSE "false"

\* C8 as stated: for every integer degree the loop reaches dg = 0 after a
\* number of iterations bounded by the bit length of the scalar dg.
C8_LoopBounded ==
    (ex.pc = "loop" /\ ex.iter >= BitLen(Abs(ex.degree - 1))) => ex.dg = 0

\* C8, amended: for degree >= 1 the loop holds dg = (degree-1) >> iter >= 0
\* and reaches dg = 0 after exactly bitlen(degree-1) iterations, when Exp
\* returns; for degree < 0, dg stays negative and Exp never returns.
C8_LoopBoundedNonNegative ==
    /\ (ex.pc \in {"loop", "done"} /\ ex.degree >= 1) =>
          /\ ex.dg = (ex.degree - 1) \div (2 ^ ex.iter)
          /\ ex.dg >= 0
          /\ ex.iter <= BitLen(ex.degree - 1)
          /\ ex.iter = BitLen(ex.degree - 1) <=> ex.dg = 0
          /\ ex.pc = "done" => ex.dg = 0
    /\ (ex.pc = "loop" /\ ex.degree < 0) => ex.dg < 0
    /\ ex.degree < 0 => ex.pc # "done"

C8_Witness ==
    /\ ex.pc = "done" /\ ex.degree = 6 /\ ex.iter = 3 /\ ex.err = ErrNone

\* C9: for a point S of the curve and 1 <= degree < ord(S): every add whose
\* result reaches T has an invertible denominator; when C is added into T
\* at iteration i, T = (1 + ((degree-1) mod 2^i))*S and C = 2^i*S; and Exp
\* returns degree*S, which is also S added degree-1 times with add.
C9_ExpBelowOrder ==
    (/\ ex.pc \in {"loop", "done"}
     /\ ex.degree >= 1
     /\ OnCurve(cv, ex.xS, ex.yS)
     /\ BelowOrder(cv, ex.degree, Norm(cv, ExS))) =>
        LET S == Norm(cv, ExS)
        IN /\ ex.tOk
           /\ (ex.pc = "loop" /\ ex.dg # 0 /\ Bit0(ex.dg) = 1) =>
                 /\ ex.iter < MaxCount
                 /\ Norm(cv, <<ex.tx, ex.ty>>) =
                        GMul(cv, 1 + ((ex.degree - 1) % (2 ^ ex.iter)), S)
                 /\ Norm(cv, <<ex.cx, ex.cy>>) = GMul(cv, 2 ^ ex.iter, S)
                 /\ ex.cOk
                 /\ slope(cv, ex.tx, ex.ty, ex.cx, ex.cy).inv.ok
           /\ ex.pc = "done" =>
                 /\ ex.err = ErrNone
                 /\ <<ex.rx[1], ex.ry[1]>> = AddChain(cv, ExS, ex.degree)
                 /\ Norm(cv, <<ex.rx[1], ex.ry[1]>>) = GMul(cv, ex.degree, S)

C9_Witness ==
    /\ ex.pc = "done" /\ cv.P = 23 /\ cv.A = 1 /\ cv.B = 1
    /\ ex.degree = 3 /\ ex.xS = 3 /\ ex.yS = 10
    /\ ex.rx = Ptr(19) /\ ex.ry = Ptr(5)
    /\ add(cv, 3, 10, 3, 10) = <<7, 12>>
    /\ add(cv, 7, 12, 3, 10) = <<19, 5>>

\* C10: add always leaves coordinates in [0, P) in its first operand; its
\* ModInverse call fails exactly in the doubling branch with 2*p1y = 0
\* (mod P) and in the general branch with p1x = p2x (mod P); the receiver
\* is then unchanged, the slope is 0 and the operand becomes
\* ((-p1x - p2x) mod P, (-p1y) mod P).
C10_AddNeverFails ==
    ad.fwd =>
        LET P   == cv.P
            p1x == ad.in1[1]
            p1y == ad.in1[2]
            p2x == ad.in2[1]
            p2y == ad.in2[2]
            s   == slope(cv, p1x, p1y, p2x, p2y)
            noInv == \/ (ad.in1 = ad.in2 /\ (2 * p1y) % P = 0)
                     \/ (ad.in1 # ad.in2 /\ (p1x - p2x) % P = 0)
        IN /\ InField(cv, ad.p1)
           /\ noInv <=> ~s.inv.ok
           /\ noInv => /\ s.inv.z = s.recv
                       /\ s.t = 0
                       /\ ad.p1 = <<(0 - p1x - p2x) % P, (0 - p1y) % P>>

C10_Witness ==
    /\ ad.fwd /\ ad.in1[1] = ad.in2[1] /\ ad.in1[2] # ad.in2[2]
    /\ IsPoint(cv, ad.in1) /\ IsPoint(cv, ad.in2)
    /\ ~slope(cv, ad.in1[1], ad.in1[2], ad.in2[1], ad.in2[2]).inv.ok
    /\ ad.p1 = <<(0 - 2 * ad.in1[1]) % cv.P, (0 - ad.in1[2]) % cv.P>>

=============================================================================
